---------------------------- MODULE Spec2Model ----------------------------
(***************************************************************************)
(* Model of the CLAP clients: client.py (sample generation-service client), *)
(* digikey.py (Web_inteface: catalog fetch and comparison table),           *)
(* digikeyjson.py (fetch_digikey_data) and streamlit_client.py (the         *)
(* Process CSV action and send_json_to_llm).                                *)
(*                                                                          *)
(* Python str values are sequences of one-character strings.  JSON values   *)
(* are tagged records [t, v].  A Python dict is a sequence of <<key, value>>*)
(* pairs in insertion order.                                                *)
(***************************************************************************)
EXTENDS Integers, Sequences, FiniteSets, TLC

(***************************************************************************)
(* Python str                                                              *)
(***************************************************************************)

\* The characters used, in code point order.
Chars ==
  << "\t", "\n", "\r", " ", "(", ")", "*", ",", "-", ".",
     "0", "1", "2", "3", "4", "5", "6", "7", "8", "9", ":",
     "A", "B", "C", "D", "E", "F", "G", "H", "I", "J", "K", "L", "M",
     "N", "O", "P", "Q", "R", "S", "T", "U", "V", "W", "X", "Y", "Z", "_",
     "a", "b", "c", "d", "e", "f", "g", "h", "i", "j", "k", "l", "m",
     "n", "o", "p", "q", "r", "s", "t", "u", "v", "w", "x", "y", "z", "|" >>

Ord(c) == CHOOSE i \in 1..Len(Chars) : Chars[i] = c

LowerLetters ==
  << "a", "b", "c", "d", "e", "f", "g", "h", "i", "j", "k", "l", "m",
     "n", "o", "p", "q", "r", "s", "t", "u", "v", "w", "x", "y", "z" >>

UpperLetters ==
  << "A", "B", "C", "D", "E", "F", "G", "H", "I", "J", "K", "L", "M",
     "N", "O", "P", "Q", "R", "S", "T", "U", "V", "W", "X", "Y", "Z" >>

Digits == << "0", "1", "2", "3", "4", "5", "6", "7", "8", "9" >>

\* the upper-case letter of each lower-case letter
UpperOf ==
  [c \in {LowerLetters[i] : i \in 1..Len(LowerLetters)} |->
     UpperLetters[CHOOSE i \in 1..Len(LowerLetters) : LowerLetters[i] = c]]

UpperChar(c) == IF c \in DOMAIN UpperOf THEN UpperOf[c] ELSE c

\* str.upper()
upper(s) == [i \in 1..Len(s) |-> UpperChar(s[i])]

\* the lower-case letter of each upper-case letter
LowerOf ==
  [c \in {UpperLetters[i] : i \in 1..Len(UpperLetters)} |->
     LowerLetters[CHOOSE i \in 1..Len(UpperLetters) : UpperLetters[i] = c]]

LowerChar(c) == IF c \in DOMAIN LowerOf THEN LowerOf[c] ELSE c

\* str.lower()
lower(s) == [i \in 1..Len(s) |-> LowerChar(s[i])]

\* the whitespace that str.strip() removes
IsSpace(c) == c \in {" ", "\t", "\n", "\r"}

RECURSIVE lstrip(_)
lstrip(s) ==
  IF s # <<>> /\ IsSpace(Head(s)) THEN lstrip(Tail(s)) ELSE s

RECURSIVE rstrip(_)
rstrip(s) ==
  IF s # <<>> /\ IsSpace(s[Len(s)]) THEN rstrip(SubSeq(s, 1, Len(s) - 1)) ELSE s

\* str.strip()
strip(s) == rstrip(lstrip(s))

\* s[:n]
Prefix(s, n) == SubSeq(s, 1, IF Len(s) < n THEN Len(s) ELSE n)

StartsWith(s, p) == Len(p) <= Len(s) /\ SubSeq(s, 1, Len(p)) = p

\* str.replace(old, new), old non-empty: every non-overlapping occurrence, left to right
RECURSIVE replace(_, _, _)
replace(s, old, new) ==
  IF s = <<>> THEN <<>>
  ELSE IF StartsWith(s, old)
       THEN new \o replace(SubSeq(s, Len(old) + 1, Len(s)), old, new)
       ELSE <<Head(s)>> \o replace(Tail(s), old, new)

\* str.split(sep) for a one-character sep: the list of fields
RECURSIVE split(_, _)
split(s, sep) ==
  IF \E i \in 1..Len(s) : s[i] = sep
  THEN LET i == CHOOSE j \in 1..Len(s) :
                  s[j] = sep /\ \A k \in 1..(j - 1) : s[k] # sep
       IN <<SubSeq(s, 1, i - 1)>> \o split(SubSeq(s, i + 1, Len(s)), sep)
  ELSE <<s>>

\* a < b on str: lexicographic by code point
RECURSIVE StrLess(_, _)
StrLess(a, b) ==
  IF b = <<>> THEN FALSE
  ELSE IF a = <<>> THEN TRUE
  ELSE IF Head(a) = Head(b) THEN StrLess(Tail(a), Tail(b))
  ELSE Ord(Head(a)) < Ord(Head(b))

\* the position of the first occurrence of p in s, 0 for none
Find(s, p) ==
  LET hits == {i \in 1..(Len(s) - Len(p) + 1) : SubSeq(s, i, i + Len(p) - 1) = p}
  IN IF hits = {} THEN 0 ELSE CHOOSE i \in hits : \A j \in hits : i <= j

\* p in s
Contains(s, p) == p = <<>> \/ Find(s, p) > 0

\* sep.join(l)
RECURSIVE join(_, _)
join(sep, l) ==
  IF l = <<>> THEN <<>>
  ELSE IF Len(l) = 1 THEN l[1]
  ELSE l[1] \o sep \o join(sep, Tail(l))

\* the items of a list that are not empty: [p for p in l if p]
RECURSIVE NonEmpty(_)
NonEmpty(l) ==
  IF l = <<>> THEN <<>>
  ELSE IF Head(l) # <<>> THEN <<Head(l)>> \o NonEmpty(Tail(l))
  ELSE NonEmpty(Tail(l))

\* str(n) for n >= 0
RECURSIVE IntStr(_)
IntStr(n) ==
  IF n < 10 THEN <<Digits[n + 1]>>
  ELSE IntStr(n \div 10) \o <<Digits[(n % 10) + 1]>>

(***************************************************************************)
(* String literals of the sources                                          *)
(***************************************************************************)
S_PartNumber == <<"P", "a", "r", "t", " ", "N", "u", "m", "b", "e", "r">>
S_Mfr == <<"M", "f", "r">>
S_PartStatus == <<"P", "a", "r", "t", " ", "S", "t", "a", "t", "u", "s">>
S_Error == <<"E", "r", "r", "o", "r">>
S_NoProductFound ==
  <<"N", "o", " ", "p", "r", "o", "d", "u", "c", "t", " ", "f", "o", "u", "n", "d">>
S_SearchError ==
  <<"S", "e", "a", "r", "c", "h", " ", "e", "r", "r", "o", "r", ":", " ">>
S_Attribute == <<"A", "t", "t", "r", "i", "b", "u", "t", "e">>
S_Parameter == <<"P", "a", "r", "a", "m", "e", "t", "e", "r">>
S_ReplacementJustification ==
  <<"R", "e", "p", "l", "a", "c", "e", "m", "e", "n", "t", " ",
    "J", "u", "s", "t", "i", "f", "i", "c", "a", "t", "i", "o", "n">>
S_Dash == <<"-">>
S_DotJson == <<".", "j", "s", "o", "n">>
S_null == <<"n", "u", "l", "l">>
S_Component == <<"C", "o", "m", "p", "o", "n", "e", "n", "t", " ">>
S_NoAnalysis ==
  <<"N", "o", " ", "a", "n", "a", "l", "y", "s", "i", "s", " ",
    "a", "v", "a", "i", "l", "a", "b", "l", "e">>

(***************************************************************************)
(* JSON values and the Python operations the sources apply to them         *)
(***************************************************************************)
JNull == [t |-> "null", v |-> <<>>]
JBool(b) == [t |-> "bool", v |-> b]
JStr(s) == [t |-> "str", v |-> s]
JList(l) == [t |-> "list", v |-> l]
\* an object: pairs <<key, value>>, keys are TLA+ strings (the literal keys of the wire formats)
JObj(pairs) == [t |-> "obj", v |-> pairs]

\* the result of evaluating an expression: the exception it raises ("" for none) and its value
Val(x) == [exc |-> "", val |-> x]
Raise(e) == [exc |-> e, val |-> JNull]

\* bool(x)
Truthy(x) ==
  CASE x.t = "null" -> FALSE
    [] x.t = "bool" -> x.v
    [] OTHER -> Len(x.v) > 0

ObjHas(o, k) == \E i \in 1..Len(o.v) : o.v[i][1] = k
ObjVal(o, k) == o.v[CHOOSE i \in 1..Len(o.v) : o.v[i][1] = k][2]

\* x.get(k, default)
DotGet(x, k, default) ==
  IF x.t = "obj"
  THEN Val(IF ObjHas(x, k) THEN ObjVal(x, k) ELSE default)
  ELSE Raise("AttributeError")

\* x[k] for a str key k
GetKey(x, k) ==
  IF x.t = "obj"
  THEN IF ObjHas(x, k) THEN Val(ObjVal(x, k)) ELSE Raise("KeyError")
  ELSE Raise("TypeError")

\* x[0]
GetIdx0(x) ==
  CASE x.t = "list" -> IF Len(x.v) > 0 THEN Val(x.v[1]) ELSE Raise("IndexError")
    [] x.t = "str" -> IF Len(x.v) > 0 THEN Val(JStr(<<x.v[1]>>)) ELSE Raise("IndexError")
    [] x.t = "obj" -> Raise("KeyError")
    [] OTHER -> Raise("TypeError")

\* iter(x): the items a for loop over x visits (a dict yields its keys, each a str,
\* kept here as one symbol)
Iter(x) ==
  CASE x.t = "list" -> [exc |-> "", items |-> x.v]
    [] x.t = "str" -> [exc |-> "", items |-> [i \in 1..Len(x.v) |-> JStr(<<x.v[i]>>)]]
    [] x.t = "obj" -> [exc |-> "", items |-> [i \in 1..Len(x.v) |-> JStr(<<x.v[i][1]>>)]]
    [] OTHER -> [exc |-> "TypeError", items |-> <<>>]

\* hash(x) raises for lists and dicts
Hashable(x) == x.t \notin {"list", "obj"}

(***************************************************************************)
(* Python dict: pairs <<key, value>> in insertion order                    *)
(***************************************************************************)
DictHas(d, k) == \E i \in 1..Len(d) : d[i][1] = k
DictPos(d, k) == CHOOSE i \in 1..Len(d) : d[i][1] = k
DictVal(d, k) == d[DictPos(d, k)][2]
\* d.get(k, default)
DictGet(d, k, default) == IF DictHas(d, k) THEN DictVal(d, k) ELSE default
\* d[k] = v: an existing key keeps its position
DictSet(d, k, v) ==
  IF DictHas(d, k)
  THEN [d EXCEPT ![DictPos(d, k)] = <<k, v>>]
  ELSE Append(d, <<k, v>>)
\* list(d.keys())
DictKeys(d) == [i \in 1..Len(d) |-> d[i][1]]


(***************************************************************************)
(* Catalog API: the keyword-search step of the two fetch routines          *)
(***************************************************************************)
HTTP_OK == 200

\* a response of requests.post: status_code, text, and json() of the body
Response(status_code, text, json) ==
  [status_code |-> status_code, text |-> text, json |-> json]

\* one outcome of a loop iteration: the exception raised ("" for none), whether a record
\* is appended to the result list, and the record
Step(exc, append, specs) == [exc |-> exc, append |-> append, specs |-> specs]

\* digikeyjson.py: for param in ...: specs[param.get('ParameterText')] = param.get('ValueText')
RECURSIVE fetch_params(_, _, _)
fetch_params(specs, items, i) ==
  IF i > Len(items) THEN [exc |-> "", specs |-> specs]
  ELSE LET value == DotGet(items[i], "ValueText", JNull)
           key == DotGet(items[i], "ParameterText", JNull)
       IN IF value.exc # "" THEN [exc |-> value.exc, specs |-> specs]
          ELSE IF key.exc # "" THEN [exc |-> key.exc, specs |-> specs]
          ELSE IF ~Hashable(key.val) THEN [exc |-> "TypeError", specs |-> specs]
          ELSE fetch_params(DictSet(specs, key.val, value.val), items, i + 1)

\* digikeyjson.py: the body of `for part_number in part_numbers`, after the POST
fetch_step(part_number, response) ==
  LET pn == <<JStr(S_PartNumber), JStr(upper(part_number))>> IN
  IF response.status_code # HTTP_OK
  THEN Step("", TRUE, <<pn, <<JStr(S_Error), JStr(S_SearchError \o response.text)>> >>)
  ELSE
  LET result == response.json
      products == DotGet(result, "Products", JNull)
  IN
  IF products.exc # "" THEN Step(products.exc, FALSE, <<>>)
  ELSE IF ~Truthy(products.val)
  THEN Step("", TRUE, <<pn, <<JStr(S_Error), JStr(S_NoProductFound)>> >>)
  ELSE
  LET product == GetIdx0(products.val) IN
  IF product.exc # "" THEN Step(product.exc, FALSE, <<>>)
  ELSE
  LET manufacturer == DotGet(product.val, "Manufacturer", JObj(<<>>))
      name == DotGet(manufacturer.val, "Name", JNull)
      productStatus == DotGet(product.val, "ProductStatus", JObj(<<>>))
      status == DotGet(productStatus.val, "Status", JNull)
      parameters == DotGet(product.val, "Parameters", JList(<<>>))
      it == Iter(parameters.val)
      specs == << pn, <<JStr(S_Mfr), name.val>>, <<JStr(S_PartStatus), status.val>> >>
      filled == fetch_params(specs, it.items, 1)
  IN
  IF manufacturer.exc # "" THEN Step(manufacturer.exc, FALSE, <<>>)
  ELSE IF name.exc # "" THEN Step(name.exc, FALSE, <<>>)
  ELSE IF productStatus.exc # "" THEN Step(productStatus.exc, FALSE, <<>>)
  ELSE IF status.exc # "" THEN Step(status.exc, FALSE, <<>>)
  ELSE IF parameters.exc # "" THEN Step(parameters.exc, FALSE, <<>>)
  ELSE IF it.exc # "" THEN Step(it.exc, FALSE, <<>>)
  ELSE IF filled.exc # "" THEN Step(filled.exc, FALSE, <<>>)
  ELSE Step("", TRUE, filled.specs)

\* digikey.py: for e in pr: specs[e['ParameterText']] = e["ValueText"]
RECURSIVE wi_params(_, _, _)
wi_params(specs, items, i) ==
  IF i > Len(items) THEN [exc |-> "", specs |-> specs]
  ELSE LET value == GetKey(items[i], "ValueText")
           key == GetKey(items[i], "ParameterText")
       IN IF value.exc # "" THEN [exc |-> value.exc, specs |-> specs]
          ELSE IF key.exc # "" THEN [exc |-> key.exc, specs |-> specs]
          ELSE IF ~Hashable(key.val) THEN [exc |-> "TypeError", specs |-> specs]
          ELSE wi_params(DictSet(specs, key.val, value.val), items, i + 1)

\* x[0][k][k2]
GetPath2(products, k, k2) ==
  LET first == GetIdx0(products)
      a == GetKey(first.val, k)
      b == GetKey(a.val, k2)
  IN IF first.exc # "" THEN first ELSE IF a.exc # "" THEN a ELSE b

\* digikey.py: the body of `for part in range(len(part_list))`, after the POST
wi_step(part_number, response) ==
  LET specs0 == << <<JStr(S_PartNumber), JStr(upper(part_number))>> >> IN
  IF response.status_code = HTTP_OK
  THEN
    LET result == response.json
        products == GetKey(result, "Products")
    IN
    IF products.exc # "" THEN Step(products.exc, FALSE, <<>>)
    ELSE IF products.val = JList(<<>>)
    THEN Step("", FALSE, specs0)          \* `miss.append` is not a call: nothing is recorded
    ELSE
    LET first == GetIdx0(products.val)
        pr == GetKey(first.val, "Parameters")
        mfr == GetPath2(products.val, "Manufacturer", "Name")
        status == GetPath2(products.val, "ProductStatus", "Status")
        it == Iter(pr.val)
        specs == specs0 \o << <<JStr(S_Mfr), mfr.val>>, <<JStr(S_PartStatus), status.val>> >>
        filled == wi_params(specs, it.items, 1)
    IN
    IF first.exc # "" THEN Step(first.exc, FALSE, <<>>)
    ELSE IF pr.exc # "" THEN Step(pr.exc, FALSE, <<>>)
    ELSE IF mfr.exc # "" THEN Step(mfr.exc, FALSE, <<>>)
    ELSE IF status.exc # "" THEN Step(status.exc, FALSE, <<>>)
    ELSE IF it.exc # "" THEN Step(it.exc, FALSE, <<>>)
    ELSE IF filled.exc # "" THEN Step(filled.exc, FALSE, <<>>)
    ELSE Step("", TRUE, filled.specs)
  ELSE Step("", FALSE, specs0)            \* print("Search error:", response.text)


(***************************************************************************)
(* Comparison tables.  A DataFrame built from a dict of columns is the     *)
(* dict itself: pairs <<column name, list of cells>> in insertion order.   *)
(***************************************************************************)

\* str(x) inside the f-string of line 104, for the values that reach it: the membership
\* test of line 102 has raised for a list or a dict, so x is a str, None or a bool
PyStr(x) ==
  CASE x.t = "str" -> x.v
    [] x.t = "null" -> <<"N", "o", "n", "e">>
    [] x.t = "bool" -> IF x.v THEN <<"T", "r", "u", "e">> ELSE <<"F", "a", "l", "s", "e">>

\* the keys of every record, concatenated in batch order
RECURSIVE AllKeys(_)
AllKeys(records) ==
  IF records = <<>> THEN <<>>
  ELSE DictKeys(Head(records)) \o AllKeys(Tail(records))

\* list(dict.fromkeys(l)): first occurrences, in order
RECURSIVE FromKeys(_)
FromKeys(l) ==
  IF l = <<>> THEN <<>>
  ELSE LET init == FromKeys(SubSeq(l, 1, Len(l) - 1))
           x == l[Len(l)]
       IN IF \E i \in 1..Len(init) : init[i] = x THEN init ELSE Append(init, x)

\* digikey.py: all_attributes
all_attributes(fin_11) == FromKeys(AllKeys(fin_11))

\* [specs.get(attr, "-") for attr in attrs]
Column(specs, attrs) == [i \in 1..Len(attrs) |-> DictGet(specs, attrs[i], JStr(S_Dash))]

\* f"Component {idx+1}", idx counted from 0
ComponentName(idx) == JStr(S_Component \o IntStr(idx + 1))

\* digikey.py: the loop `for idx, specs in enumerate(fin_11)`, from record i (1-based):
\* the exception it raises ("" for none) and comparison_data.  `part_name in used_names`
\* (line 102) hashes part_name and raises TypeError for a list or a dict.
RECURSIVE wi_columns(_, _, _, _, _)
wi_columns(fin_11, attrs, i, used_names, comparison_data) ==
  IF i > Len(fin_11) THEN [exc |-> "", table |-> comparison_data]
  ELSE
  LET specs == fin_11[i]
      part_name == DictGet(specs, JStr(S_PartNumber), ComponentName(i - 1))
      seen == DictHas(used_names, part_name)
      count == IF seen THEN DictVal(used_names, part_name) + 1 ELSE 1
      column_name ==
        IF seen
        THEN JStr(PyStr(part_name) \o <<" ", "(">> \o IntStr(count) \o <<")">>)
        ELSE part_name
  IN IF ~Hashable(part_name) THEN [exc |-> "TypeError", table |-> comparison_data]
     ELSE wi_columns(fin_11, attrs, i + 1,
                     DictSet(used_names, part_name, count),
                     DictSet(comparison_data, column_name, Column(specs, attrs)))

\* digikey.py: the comparison table of Web_inteface (an empty DataFrame for no records),
\* or the exception that building it raises
comparison_table(fin_11) ==
  IF fin_11 = <<>> THEN [exc |-> "", table |-> <<>>]
  ELSE LET attrs == all_attributes(fin_11)
       IN wi_columns(fin_11, attrs, 1, <<>>, << <<JStr(S_Attribute), attrs>> >>)

\* sorted(l) for a list of str without repeats
RECURSIVE Sorted(_)
Sorted(l) ==
  IF l = <<>> THEN <<>>
  ELSE LET m == CHOOSE i \in 1..Len(l) : \A j \in 1..Len(l) : ~StrLess(l[j].v, l[i].v)
           rest == [j \in 1..(Len(l) - 1) |-> IF j < m THEN l[j] ELSE l[j + 1]]
       IN <<l[m]>> \o Sorted(rest)

\* streamlit_client.py: all_params = sorted(set of every component's keys)
all_params(json_content) == Sorted(FromKeys(AllKeys(json_content)))

\* streamlit_client.py: the loop `for idx, component in enumerate(json_content)`: the
\* exception it raises ("" for none) and data.  data[part_num] = ... (line 278) hashes
\* part_num and raises TypeError for a list or a dict.
RECURSIVE csv_columns(_, _, _, _)
csv_columns(json_content, params, i, data) ==
  IF i > Len(json_content) THEN [exc |-> "", table |-> data]
  ELSE
  LET component == json_content[i]
      part_num == DictGet(component, JStr(S_PartNumber), ComponentName(i - 1))
  IN IF ~Hashable(part_num) THEN [exc |-> "TypeError", table |-> data]
     ELSE csv_columns(json_content, params, i + 1,
                      DictSet(data, part_num, Column(component, params)))

\* streamlit_client.py: data, before the justification column is added, or the exception
\* that building it raises
csv_table(json_content) ==
  LET params == all_params(json_content)
  IN csv_columns(json_content, params, 1, << <<JStr(S_Parameter), params>> >>)


(***************************************************************************)
(* Files, sheets and the justification column                              *)
(***************************************************************************)
SheetNameMax == 31

\* json.dump turns a dict key into a JSON string (None -> "null", True -> "true")
JsonKey(k) ==
  CASE k.t = "str" -> k
    [] k.t = "null" -> JStr(S_null)
    [] k.t = "bool" -> JStr(IF k.v THEN <<"t", "r", "u", "e">> ELSE <<"f", "a", "l", "s", "e">>)
    [] OTHER -> k

\* one record written by json.dump and read back by json.load
RECURSIVE JsonRecord(_, _)
JsonRecord(specs, acc) ==
  IF specs = <<>> THEN acc
  ELSE JsonRecord(Tail(specs), DictSet(acc, JsonKey(Head(specs)[1]), Head(specs)[2]))

\* the content json.load gives for a file that json.dump(all_specs) wrote
JsonFile(all_specs) == [i \in 1..Len(all_specs) |-> JsonRecord(all_specs[i], <<>>)]

\* digikeyjson.py: filename = f"{output_filename}.json"
FileName(output_filename) == output_filename \o S_DotJson

\* streamlit_client.py: sheet_name = fname.replace(".json", "")[:31]
SheetName(fname) == Prefix(replace(fname, S_DotJson, <<>>), SheetNameMax)

\* streamlit_client.py lines 28-55: the table rows of the reply, from line i, with
\* table_found and justification_map (a dict from parameter name to justification)
RECURSIVE table_rows(_, _, _, _)
table_rows(lines, i, table_found, justification_map) ==
  IF i > Len(lines) THEN justification_map
  ELSE
  LET line == lines[i]
      bare == replace(replace(replace(replace(strip(line), <<"|">>, <<>>),
                                      <<"-">>, <<>>), <<" ">>, <<>>), <<":">>, <<>>)
      cells == split(line, "|")
      parts == NonEmpty([k \in 1..Len(cells) |-> strip(cells[k])])
  IN IF ~Contains(line, <<"|">>) \/ bare = <<>>
     THEN table_rows(lines, i + 1, table_found, justification_map)
     ELSE IF Len(parts) >= 2 /\ lower(parts[1]) \in {lower(S_Parameter), lower(S_Parameter) \o <<"s">>}
     THEN table_rows(lines, i + 1, TRUE, justification_map)
     ELSE IF Len(parts) >= 2 /\ table_found
     THEN table_rows(lines, i + 1, table_found,
                     DictSet(justification_map, strip(parts[1]), strip(parts[2])))
     ELSE table_rows(lines, i + 1, table_found, justification_map)

\* streamlit_client.py lines 60-76: the "**name**" headings of the reply, from line i,
\* with current_param (empty for None), current_justification and justification_map
RECURSIVE heading_rows(_, _, _, _, _)
heading_rows(lines, i, current_param, current_justification, justification_map) ==
  LET closed == IF current_param # <<>> /\ current_justification # <<>>
                THEN DictSet(justification_map, current_param,
                             join(<<" ">>, current_justification))
                ELSE justification_map
  IN
  IF i > Len(lines) THEN closed
  ELSE
  LET line == strip(lines[i])
      rest == SubSeq(line, 3, Len(line))
  IN IF StartsWith(line, <<"*", "*">>) /\ Contains(rest, <<"*", "*">>)
     THEN heading_rows(lines, i + 1,
                       strip(replace(SubSeq(rest, 1, Find(rest, <<"*", "*">>) - 1),
                                     <<":">>, <<>>)),
                       <<>>, closed)
     ELSE IF current_param # <<>> /\ line # <<>>
     THEN heading_rows(lines, i + 1, current_param,
                       Append(current_justification, line), justification_map)
     ELSE heading_rows(lines, i + 1, current_param, current_justification,
                       justification_map)

\* streamlit_client.py lines 84-109: the justification of one parameter: an exact match,
\* else the first key equal to it without regard to case, else the first key that
\* contains it or is contained in it without regard to case; matched is FALSE for none
match_param(param, justification_map) ==
  LET keys == [k \in 1..Len(justification_map) |-> lower(justification_map[k][1])]
      name == lower(param)
      same == {k \in 1..Len(keys) : keys[k] = name}
      part == {k \in 1..Len(keys) : Contains(name, keys[k]) \/ Contains(keys[k], name)}
      First(ks) == CHOOSE k \in ks : \A m \in ks : k <= m
  IN IF DictHas(justification_map, param)
     THEN [matched |-> TRUE, value |-> DictVal(justification_map, param)]
     ELSE IF same # {}
     THEN [matched |-> TRUE, value |-> justification_map[First(same)][2]]
     ELSE IF part # {}
     THEN [matched |-> TRUE, value |-> justification_map[First(part)][2]]
     ELSE [matched |-> FALSE, value |-> S_Dash]

\* streamlit_client.py: parse_llm_justifications.  len() at line 22 raises TypeError for
\* None and a bool; .split at line 25 raises AttributeError for a list and a dict.
\* The result: the exception raised ("" for none), the justifications, and the source
\* lines of the st.warning calls, in order.
parse_llm_justifications(justification_text, params) ==
  CASE justification_text.t \in {"null", "bool"} ->
         [exc |-> "TypeError", justifications |-> <<>>, warnings |-> <<>>]
    [] justification_text.t \in {"list", "obj"} ->
         [exc |-> "AttributeError", justifications |-> <<>>, warnings |-> <<>>]
    [] OTHER ->
         LET lines == split(justification_text.v, "\n")
             table == table_rows(lines, 1, FALSE, <<>>)
             justification_map ==
               IF table = <<>> THEN heading_rows(lines, 1, <<>>, <<>>, <<>>) ELSE table
             found == [i \in 1..Len(params) |-> match_param(params[i].v, justification_map)]
             unmatched_params == {i \in 1..Len(params) : ~found[i].matched}
         IN [exc |-> "",
             justifications |-> [i \in 1..Len(params) |-> JStr(found[i].value)],
             warnings |-> (IF table = <<>> THEN <<59>> ELSE <<>>)
                            \o (IF unmatched_params # {} THEN <<112>> ELSE <<>>)
                            \o (IF Cardinality(unmatched_params) > 5 THEN <<114>> ELSE <<>>)]

(***************************************************************************)
(* The environment: what the catalog API and the generation service answer *)
(***************************************************************************)
S_ready == <<"r", "e", "a", "d", "y">>
S_result == <<"r", "e", "s", "u", "l", "t">>
S_error == <<"e", "r", "r", "o", "r">>
S_analyze == <<"a", "n", "a", "l", "y", "z", "e", "-">>
S_Voltage == <<"V", "o", "l", "t", "a", "g", "e">>
S_Interface == <<"I", "n", "t", "e", "r", "f", "a", "c", "e">>
S_3V == <<"3", "V">>
S_5V == <<"5", "V">>
S_I2C == <<"I", "2", "C">>
S_Active == <<"A", "c", "t", "i", "v", "e">>
S_Obsolete == <<"O", "b", "s", "o", "l", "e", "t", "e">>
S_Melexis == <<"M", "e", "l", "e", "x", "i", "s">>
S_Honeywell == <<"H", "o", "n", "e", "y", "w", "e", "l", "l">>
S_oops == <<"o", "o", "p", "s">>
S_fail == <<"f", "a", "i", "l">>
S_Suitable == <<"S", "u", "i", "t", "a", "b", "l", "e">>
\* a reply text: a markdown table with a header, a separator and two rows
S_Table ==
  <<"|", " ", "P", "a", "r", "a", "m", "e", "t", "e", "r", " ", "|", " ",
    "J", "u", "s", "t", "i", "f", "i", "c", "a", "t", "i", "o", "n", " ",
    "|", "\n", "|", "-", "-", "-", "|", "-", "-", "-", "|", "\n", "|", " ",
    "M", "f", "r", " ", "|", " ", "s", "a", "m", "e", " ", "|", "\n", "|",
    " ", "v", "o", "l", "t", "a", "g", "e", " ", "|", " ", "f", "i", "t",
    "s", " ", "|">>
S_mcp == <<"m", "c", "p">>
S_tok == <<"t", "o", "k">>

Param(text, value) ==
  JObj(<< <<"ParameterText", JStr(text)>>, <<"ValueText", JStr(value)>> >>)

Product(mfr, status, params) ==
  JObj(<< <<"Manufacturer", JObj(<< <<"Name", JStr(mfr)>> >>)>>,
          <<"ProductStatus", JObj(<< <<"Status", JStr(status)>> >>)>>,
          <<"Parameters", JList(params)>> >>)

Products(x) == Response(HTTP_OK, <<>>, JObj(<< <<"Products", x>> >>))

\* answers of the keyword search: two products, an empty result, a non-success status,
\* bodies whose Products field is absent, null, not a list, or a product without
\* sub-fields, and a product with a parameter named "Part Number" whose value is a list
SearchResponses ==
  << Products(JList(<<Product(S_Melexis, S_Active, <<Param(S_Voltage, S_3V)>>)>>)),
     Products(JList(<<Product(S_Honeywell, S_Obsolete,
                              <<Param(S_Interface, S_I2C), Param(S_Voltage, S_5V)>>)>>)),
     Products(JList(<<>>)),
     Response(500, S_fail, JObj(<<>>)),
     Response(HTTP_OK, <<>>, JObj(<<>>)),
     Products(JNull),
     Products(JStr(S_oops)),
     Products(JList(<<JObj(<<>>)>>)),
     Products(JList(<<Product(S_Melexis, S_Active,
                              <<JObj(<< <<"ParameterText", JStr(S_PartNumber)>>,
                                        <<"ValueText", JList(<<>>)>> >>)>>)>>)) >>

\* answers of the token exchange: a token, a refusal, and a body without access_token
TokenResponses ==
  << Response(HTTP_OK, <<>>, JObj(<< <<"access_token", JStr(S_tok)>> >>)),
     Response(401, S_fail, JObj(<<>>)),
     Response(HTTP_OK, <<>>, JObj(<<>>)) >>

\* handshake replies of the generation service; the last one is not an object
HandshakeReplies ==
  << JObj(<< <<"type", JStr(S_ready)>>, <<"server", JStr(S_mcp)>>,
             <<"capabilities", JObj(<<>>)>> >>),
     JObj(<< <<"type", JStr(S_ready)>> >>),
     JObj(<< <<"type", JStr(S_error)>> >>),
     JObj(<<>>),
     JList(<<>>) >>

\* replies of the generation service to a request; the second holds a markdown table;
\* in the last two the text of the
\* data is not a str and the reply is not an object
RequestReplies ==
  << JObj(<< <<"type", JStr(S_result)>>, <<"ok", JBool(TRUE)>>,
             <<"data", JObj(<< <<"text", JStr(S_Suitable)>>, <<"usage", JObj(<<>>)>> >>)>> >>),
     JObj(<< <<"type", JStr(S_result)>>, <<"ok", JBool(TRUE)>>,
             <<"data", JObj(<< <<"text", JStr(S_Table)>> >>)>> >>),
     JObj(<< <<"type", JStr(S_result)>>, <<"ok", JBool(TRUE)>>, <<"data", JObj(<<>>)>> >>),
     JObj(<< <<"type", JStr(S_result)>>, <<"ok", JBool(FALSE)>>,
             <<"data", JObj(<< <<"text", JStr(S_fail)>> >>)>> >>),
     JObj(<< <<"type", JStr(S_error)>>, <<"ok", JBool(TRUE)>>,
             <<"data", JObj(<< <<"text", JStr(S_fail)>> >>)>> >>),
     JObj(<< <<"type", JStr(S_result)>> >>),
     JObj(<< <<"type", JStr(S_result)>>, <<"ok", JBool(TRUE)>>,
             <<"data", JObj(<< <<"text", JList(<<>>)>> >>)>> >>),
     JNull >>


(***************************************************************************)
(* Inputs                                                                  *)
(***************************************************************************)
\* the most part numbers typed into the Web_inteface text box
MaxParts == 2

P_A1 == <<"A", "1">>
P_a1 == <<"a", "1">>
P_b2 == <<" ", "b", "2">>
P_B2 == <<"B", "2">>
P_Long1 ==
  <<"X", "X", "X", "X", "X", "X", "X", "X", "X", "X", "X", "X", "X", "X", "X", "X",
    "X", "X", "X", "X", "X", "X", "X", "X", "X", "X", "X", "X", "X", "X", "X", "1">>
P_Long2 ==
  <<"X", "X", "X", "X", "X", "X", "X", "X", "X", "X", "X", "X", "X", "X", "X", "X",
    "X", "X", "X", "X", "X", "X", "X", "X", "X", "X", "X", "X", "X", "X", "X", "2">>

\* ",".join(fields)
RECURSIVE Join(_)
Join(fields) ==
  IF fields = <<>> THEN <<>>
  ELSE IF Len(fields) = 1 THEN fields[1]
  ELSE fields[1] \o <<",">> \o Join(Tail(fields))

\* what the user may type between the commas
WiFields == {P_A1, P_b2, <<>>}

\* the texts typed into the Web_inteface text box
WiInputs == {Join(fs) : fs \in UNION {[1..n -> WiFields] : n \in 0..MaxParts}}

\* a CSV data line with cells for Manf1_partno and Manf2_partno and two empty cells
Row(c1, c2) == <<c1, c2, <<>>, <<>>>>

\* an upload: whether its bytes decode as UTF-8, and the cells of its data lines under
\* the header Manf1_partno .. Manf4_partno; csv.DictReader gives None for the cells that a
\* line shorter than the header lacks, and skips a line without cells
Upload(utf8, rows) == [utf8 |-> utf8, rows |-> rows]

\* the uploaded CSV files: rows with different names, rows with the same first part
\* number, rows whose names agree in their first 31 characters, a row without part
\* numbers followed by a row that repeats a part number, a file without rows, a file
\* with a line of one cell, and a file that is not UTF-8
CsvFiles ==
  << Upload(TRUE, << Row(P_A1, P_b2), Row(P_B2, <<>>) >>),
     Upload(TRUE, << Row(P_A1, <<>>), Row(<<" ", "A", "1">>, <<>>) >>),
     Upload(TRUE, << Row(P_Long1, <<>>), Row(P_Long2, <<>>) >>),
     Upload(TRUE, << Row(<<>>, <<" ">>), Row(P_a1, P_A1) >>),
     Upload(TRUE, << >>),
     Upload(TRUE, << Row(P_B2, <<>>), <<P_A1>> >>),
     Upload(FALSE, << >>) >>

(***************************************************************************)
(* State                                                                   *)
(***************************************************************************)
VARIABLES
  entry,   \* the entry point that runs: "client_main", "Web_inteface", "ProcessCSV"
  arg,     \* its input: lis1 of Web_inteface, the uploaded CSV
  pc,      \* the statement the program is at
  http,    \* the requests sent to the catalog API, in order
  wi,      \* Web_inteface: Li, part (loop index, 1-based), fin_11, access_token
  fd,      \* fetch_digikey_data: part_numbers, output_filename, i (1-based), all_specs
  ui,      \* Process CSV: rows_data, row, json_files, f, json_content, data,
           \*   llm_response, excel_data
  files,   \* the files on disk: a dict from file name to content
  conns,   \* the generation-service connections opened so far, in order
  ret,     \* how the entry point ended
  log      \* what was reported to the user: print, st.success, st.warning, st.error

vars == <<entry, arg, pc, http, wi, fd, ui, files, conns, ret, log>>

NoneYet == [kind |-> "running", exc |-> "", value |-> <<>>]
Returned(value) == [kind |-> "returned", exc |-> "", value |-> value]
\* the entry point caught the exception in its own handler and returned an error value
ErrorValue(exc) == [kind |-> "error_value", exc |-> exc, value |-> <<>>]
\* the exception left the entry point
Uncaught(exc) == [kind |-> "uncaught", exc |-> exc, value |-> <<>>]

\* a message shown to the user: the call, the source line of the call, the exception reported
Report(kind, line, exc) == [kind |-> kind, line |-> line, exc |-> exc]

Wi0 == [Li |-> <<>>, part |-> 1, fin_11 |-> <<>>, access_token |-> JNull]
Fd0 == [part_numbers |-> <<>>, output_filename |-> <<>>, i |-> 1, all_specs |-> <<>>]
Ui0 == [rows_data |-> <<>>, row |-> 1, json_files |-> <<>>, f |-> 1,
        json_content |-> <<>>, data |-> <<>>, llm_response |-> JNull,
        excel_data |-> <<>>]

Start(e, a, p) ==
  /\ entry = e
  /\ arg = a
  /\ pc = p
  /\ http = <<>>
  /\ wi = Wi0
  /\ fd = Fd0
  /\ ui = Ui0
  /\ files = <<>>
  /\ conns = <<>>
  /\ ret = NoneYet
  /\ log = <<>>

Init ==
  \/ Start("client_main", <<>>, "main_connect")
  \/ \E lis1 \in WiInputs : Start("Web_inteface", lis1, "wi_start")
  \/ \E c \in 1..Len(CsvFiles) : Start("ProcessCSV", CsvFiles[c], "pc_parse")


(***************************************************************************)
(* Generation-service connections                                          *)
(***************************************************************************)
\* the outcome of the exchange on a connection: "pending", "data" (the data payload is
\* used or returned), "raised" (an exception leaves the client function, exc its type,
\* payload the object it carries) or "reported" (client.main prints "Error:" and payload)
Outcome(kind, exc, payload) == [kind |-> kind, exc |-> exc, payload |-> payload]

\* websockets.connect(SERVER_URL, max_size=2**23) entered by `async with`
\* f is the index in json_files of the file the connection is opened for (0 in client.py);
\* events are the messages sent and received on it, in order
NewConn(client, f) ==
  [client |-> client, f |-> f, open |-> TRUE, events |-> <<>>,
   result |-> Outcome("pending", "", JNull)]

\* await ws.send(json.dumps(msg)) on the current connection
Send(cs, msg) ==
  [cs EXCEPT ![Len(cs)].events = Append(@, [dir |-> "send", msg |-> msg])]

\* json.loads(await ws.recv()) on the current connection
Recv(cs, msg) ==
  [cs EXCEPT ![Len(cs)].events = Append(@, [dir |-> "recv", msg |-> msg])]

\* a variant that closes the connection only on the return path
CloseWsOnReturn(cs, outcome) ==
  [cs EXCEPT ![Len(cs)].open = (outcome.kind # "data"), ![Len(cs)].result = outcome]

\* leaving the `async with` block, by return or by exception, closes the connection
CloseWs(cs, outcome) ==
  [cs EXCEPT ![Len(cs)].open = FALSE, ![Len(cs)].result = outcome]

\* a variant that only checks that the reply names a type
IsReadyAnyType(ready) ==
  [exc |-> DotGet(ready, "type", JNull).exc,
   val |-> ready.t = "obj" /\ ObjHas(ready, "type")]

\* ready.get("type") == "ready": the exception it raises ("" for none; .get raises
\* AttributeError for a reply that is not an object) and its truth value
IsReady(ready) ==
  [exc |-> DotGet(ready, "type", JNull).exc,
   val |-> DotGet(ready, "type", JNull).val = JStr(S_ready)]

\* a variant that does not look at the ok flag
IsResultAnyOk(resp) ==
  [exc |-> DotGet(resp, "type", JNull).exc,
   val |-> DotGet(resp, "type", JNull).val = JStr(S_result)]

\* resp.get("type") == "result" and resp.get("ok"): the exception it raises ("" for
\* none) and its truth value
IsResultOk(resp) ==
  [exc |-> DotGet(resp, "type", JNull).exc,
   val |-> /\ DotGet(resp, "type", JNull).exc = ""
           /\ DotGet(resp, "type", JNull).val = JStr(S_result)
           /\ Truthy(DotGet(resp, "ok", JNull).val)]

InitializeMsg(client) == [type |-> "initialize", client |-> client, version |-> "0.1"]
RequestMsg(id) == [type |-> "request", id |-> id, method |-> "llm.generate"]

(***************************************************************************)
(* client.py: main                                                         *)
(***************************************************************************)
Main_Connect ==
  /\ pc = "main_connect"
  /\ \E connected \in BOOLEAN :
       IF connected
       THEN /\ conns' = Append(conns, NewConn("main", 0))
            /\ pc' = "main_initialize"
            /\ ret' = ret
       ELSE /\ conns' = conns
            /\ pc' = "exit"
            /\ ret' = Uncaught("ConnectionError")
  /\ UNCHANGED <<entry, arg, http, wi, fd, ui, files, log>>

Main_SendInitialize ==
  /\ pc = "main_initialize"
  /\ conns' = Send(conns, InitializeMsg("sample-client"))
  /\ pc' = "main_ready"
  /\ UNCHANGED <<entry, arg, http, wi, fd, ui, files, ret, log>>

\* lines 14-16: the exception the handshake reply raises ("" for none)
main_ready_exc(ready) ==
  IF IsReady(ready).exc # "" THEN IsReady(ready).exc
  ELSE IF ~IsReady(ready).val THEN "AssertionError"
  ELSE IF GetKey(ready, "server").exc # "" THEN GetKey(ready, "server").exc
  ELSE GetKey(ready, "capabilities").exc

\* the AssertionError of line 15 carries the reply in its message; the AttributeError
\* and the KeyError of lines 15-16 do not
Main_RecvReady ==
  /\ pc = "main_ready"
  /\ \E h \in 1..Len(HandshakeReplies) :
       LET ready == HandshakeReplies[h]
           exc == main_ready_exc(ready)
       IN IF exc = ""
          THEN /\ conns' = Recv(conns, ready)
               /\ pc' = "main_request"
               /\ ret' = ret
               /\ log' = Append(log, Report("print", 16, ""))
          ELSE /\ conns' = CloseWs(Recv(conns, ready),
                                   Outcome("raised", exc,
                                           IF exc = "AssertionError" THEN ready ELSE JNull))
               /\ pc' = "exit"
               /\ ret' = Uncaught(exc)
               /\ log' = log
  /\ UNCHANGED <<entry, arg, http, wi, fd, ui, files>>

Main_SendRequest ==
  /\ pc = "main_request"
  /\ conns' = Send(conns, RequestMsg(<<"1">>))
  /\ pc' = "main_response"
  /\ UNCHANGED <<entry, arg, http, wi, fd, ui, files, ret, log>>

\* lines 41-44: the exception that printing the data raises ("" for none) and the source
\* lines of the print calls made before it
main_data_exc(resp) ==
  LET data == GetKey(resp, "data")
      text == GetKey(data.val, "text")
      usage == DotGet(data.val, "usage", JObj(<<>>))
  IN IF data.exc # "" THEN [exc |-> data.exc, prints |-> <<>>]
     ELSE IF text.exc # "" THEN [exc |-> text.exc, prints |-> <<42>>]
     ELSE IF usage.exc # "" THEN [exc |-> usage.exc, prints |-> <<42, 43>>]
     ELSE [exc |-> "", prints |-> <<42, 43, 44>>]

Main_RecvResponse ==
  /\ pc = "main_response"
  /\ \E r \in 1..Len(RequestReplies) :
       LET resp == RequestReplies[r] IN
       IF IsResultOk(resp).exc # ""
       THEN /\ conns' = CloseWs(Recv(conns, resp),
                                Outcome("raised", IsResultOk(resp).exc, JNull))
            /\ ret' = Uncaught(IsResultOk(resp).exc)
            /\ log' = log
       ELSE IF IsResultOk(resp).val
       THEN LET shown == main_data_exc(resp)
                printed == log \o [i \in 1..Len(shown.prints) |->
                                     Report("print", shown.prints[i], "")]
            IN
            IF shown.exc = ""
            THEN /\ conns' = CloseWs(Recv(conns, resp),
                                     Outcome("data", "", GetKey(resp, "data").val))
                 /\ ret' = Returned(<<>>)
                 /\ log' = printed
            ELSE /\ conns' = CloseWs(Recv(conns, resp), Outcome("raised", shown.exc, JNull))
                 /\ ret' = Uncaught(shown.exc)
                 /\ log' = printed
       ELSE /\ conns' = CloseWs(Recv(conns, resp), Outcome("reported", "", resp))
            /\ ret' = Returned(<<>>)
            /\ log' = Append(log, Report("print", 46, "Error"))
  /\ pc' = "exit"
  /\ UNCHANGED <<entry, arg, http, wi, fd, ui, files>>


(***************************************************************************)
(* digikey.py: Web_inteface                                                *)
(***************************************************************************)
\* [p.strip() for p in fields if p.strip()]
RECURSIVE StripNonEmpty(_)
StripNonEmpty(fields) ==
  IF fields = <<>> THEN <<>>
  ELSE IF strip(Head(fields)) # <<>>
       THEN <<strip(Head(fields))>> \o StripNonEmpty(Tail(fields))
       ELSE StripNonEmpty(Tail(fields))

\* Li = [p.strip() for p in lis1.split(',') if p.strip()]
ParseList(lis1) == StripNonEmpty(split(lis1, ","))

\* a POST to the catalog API and the response it got
TokenRequest(response) == [url |-> "token", keywords |-> <<>>, response |-> response]
SearchRequest(keywords, response) ==
  [url |-> "search", keywords |-> keywords, response |-> response]

\* lines 13-33: parse the input and exchange the credentials for a token; an exception
\* (a token response without access_token) ends Web_inteface in its handler (lines
\* 113-115)
WI_Token ==
  /\ pc = "wi_start"
  /\ \E t \in 1..Len(TokenResponses) :
       LET token_response == TokenResponses[t]
           Li == ParseList(arg)
           ok == token_response.status_code = HTTP_OK
           token == GetKey(token_response.json, "access_token")
           access_token == IF ok THEN token.val ELSE JNull
       IN /\ http' = Append(http, TokenRequest(token_response))
          /\ IF ok /\ token.exc # ""
             THEN /\ wi' = [wi EXCEPT !.Li = Li]
                  /\ ret' = ErrorValue(token.exc)
                  /\ log' = Append(log, Report("print", 114, token.exc))
                  /\ pc' = "exit"
             ELSE /\ wi' = [wi EXCEPT !.Li = Li, !.access_token = access_token, !.part = 1]
                  /\ ret' = ret
                  /\ log' = IF ok
                            THEN Append(log, Report("print", 24, ""))
                            ELSE Append(log, Report("print", 26, "Token error"))
                  /\ pc' = IF Truthy(access_token) /\ Li # <<>>
                           THEN "wi_search" ELSE "wi_table"
  /\ UNCHANGED <<entry, arg, fd, ui, files, conns>>

\* lines 47-84: one iteration of the search loop; an exception ends Web_inteface in
\* its handler (lines 113-115)
WI_Search ==
  /\ pc = "wi_search"
  /\ \E r \in 1..Len(SearchResponses) :
       LET response == SearchResponses[r]
           step == wi_step(wi.Li[wi.part], response)
       IN /\ http' = Append(http, SearchRequest(wi.Li[wi.part], response))
          /\ IF step.exc # ""
             THEN /\ wi' = wi
                  /\ ret' = ErrorValue(step.exc)
                  /\ log' = Append(log, Report("print", 114, step.exc))
                  /\ pc' = "exit"
             ELSE /\ wi' = [wi EXCEPT
                              !.part = @ + 1,
                              !.fin_11 = IF step.append THEN Append(@, step.specs) ELSE @]
                  /\ ret' = ret
                  /\ log' = IF response.status_code = HTTP_OK THEN log
                            ELSE Append(log, Report("print", 81, "Search error"))
                  /\ pc' = IF wi.part < Len(wi.Li) THEN "wi_search" ELSE "wi_table"
  /\ UNCHANGED <<entry, arg, fd, ui, files, conns>>

\* lines 84-112: build and return the comparison table; an exception ends Web_inteface
\* in its handler (lines 113-115)
WI_Table ==
  /\ pc = "wi_table"
  /\ LET built == comparison_table(wi.fin_11) IN
       IF built.exc # ""
       THEN /\ ret' = ErrorValue(built.exc)
            /\ log' = Append(log, Report("print", 114, built.exc))
       ELSE /\ ret' = Returned(built.table)
            /\ log' = log
  /\ pc' = "exit"
  /\ UNCHANGED <<entry, arg, http, wi, fd, ui, files, conns>>


(***************************************************************************)
(* streamlit_client.py: the Process CSV action, with digikeyjson.py's      *)
(* fetch_digikey_data and send_json_to_llm inlined at their call sites     *)
(***************************************************************************)
S_xlsx ==
  <<"a", "n", "a", "l", "y", "s", "i", "s", "_", "r", "e", "s", "u", "l", "t", "s",
    ".", "x", "l", "s", "x">>

\* the columns read from a row
Columns == 1..4

\* lines 230-238: the (part_numbers, output_name) pairs of the rows that hold a part number
RECURSIVE ParseRows(_)
ParseRows(rows) ==
  IF rows = <<>> THEN <<>>
  ELSE LET part_numbers == StripNonEmpty([c \in Columns |-> Head(rows)[c]])
       IN IF Head(rows) # <<>> /\ part_numbers # <<>>
          THEN <<[part_numbers |-> part_numbers, output_name |-> part_numbers[1]]>>
                 \o ParseRows(Tail(rows))
          ELSE ParseRows(Tail(rows))

\* lines 227-238: the exception that reading the upload raises ("" for none): decode at
\* line 227, and .strip() at line 233 on the None of a cell that the line lacks
parse_exc(upload) ==
  IF ~upload.utf8 THEN "UnicodeDecodeError"
  ELSE IF \E r \in 1..Len(upload.rows) :
            upload.rows[r] # <<>> /\ \E c \in Columns : c > Len(upload.rows[r])
  THEN "AttributeError"
  ELSE ""

\* the call fetch_digikey_data(part_numbers, output_name) for one row
Frame(row) ==
  [part_numbers |-> row.part_numbers, output_filename |-> row.output_name,
   i |-> 1, all_specs |-> <<>>]

\* lines 226-246; an exception is reported at line 240 and leaves no rows (line 241)
PC_Parse ==
  /\ pc = "pc_parse"
  /\ LET exc == parse_exc(arg)
         rows_data == IF exc # "" THEN <<>> ELSE ParseRows(arg.rows)
         reported == IF exc # "" THEN Append(log, Report("st.error", 240, exc)) ELSE log
     IN
       IF rows_data = <<>>
       THEN /\ ui' = [ui EXCEPT !.rows_data = rows_data]
            /\ fd' = fd
            /\ log' = Append(reported, Report("st.warning", 243, "No valid part numbers"))
            /\ ret' = Returned(<<>>)
            /\ pc' = "exit"
       ELSE /\ ui' = [ui EXCEPT !.rows_data = rows_data, !.row = 1, !.json_files = <<>>]
            /\ fd' = Frame(rows_data[1])
            /\ log' = log
            /\ ret' = ret
            /\ pc' = "fd_token"
  /\ UNCHANGED <<entry, arg, http, wi, files, conns>>

\* lines 247-255: the fetch loop goes to its next row, or on to the analysis
AfterRow(json_files) ==
  IF ui.row < Len(ui.rows_data)
  THEN /\ ui' = [ui EXCEPT !.json_files = json_files, !.row = @ + 1]
       /\ fd' = Frame(ui.rows_data[ui.row + 1])
       /\ pc' = "fd_token"
       /\ ret' = ret
  ELSE /\ ui' = [ui EXCEPT !.json_files = json_files, !.f = 1, !.excel_data = <<>>]
       /\ fd' = fd
       /\ pc' = IF json_files # <<>> THEN "pc_load" ELSE "exit"
       /\ ret' = IF json_files # <<>> THEN ret ELSE Returned(<<>>)

\* digikeyjson.py lines 10-24: the token exchange; a failure raises, and Process CSV
\* reports it (lines 252-253) and goes to the next row
FD_Token ==
  /\ pc = "fd_token"
  /\ \E t \in 1..Len(TokenResponses) :
       LET token_response == TokenResponses[t]
           exc == IF token_response.status_code # HTTP_OK THEN "Exception"
                  ELSE GetKey(token_response.json, "access_token").exc
       IN /\ http' = Append(http, TokenRequest(token_response))
          /\ IF exc # ""
             THEN /\ log' = Append(log, Report("st.error", 253, exc))
                  /\ AfterRow(ui.json_files)
             ELSE /\ log' = log
                  /\ pc' = IF fd.part_numbers # <<>> THEN "fd_search" ELSE "fd_write"
                  /\ UNCHANGED <<ui, fd, ret>>
  /\ UNCHANGED <<entry, arg, wi, files, conns>>

\* digikeyjson.py lines 26-45: one iteration of the search loop
FD_Search ==
  /\ pc = "fd_search"
  /\ \E r \in 1..Len(SearchResponses) :
       LET step == fetch_step(fd.part_numbers[fd.i], SearchResponses[r]) IN
       /\ http' = Append(http, SearchRequest(fd.part_numbers[fd.i], SearchResponses[r]))
       /\ IF step.exc # ""
          THEN /\ log' = Append(log, Report("st.error", 253, step.exc))
               /\ AfterRow(ui.json_files)
          ELSE /\ log' = log
               /\ fd' = [fd EXCEPT
                           !.i = @ + 1,
                           !.all_specs = IF step.append THEN Append(@, step.specs) ELSE @]
               /\ pc' = IF fd.i < Len(fd.part_numbers) THEN "fd_search" ELSE "fd_write"
               /\ UNCHANGED <<ui, ret>>
  /\ UNCHANGED <<entry, arg, wi, files, conns>>

\* digikeyjson.py lines 46-49 and streamlit_client.py lines 250-251
FD_Write ==
  /\ pc = "fd_write"
  /\ LET filename == FileName(fd.output_filename) IN
       /\ files' = DictSet(files, filename, JsonFile(fd.all_specs))
       /\ log' = Append(log, Report("st.success", 251, ""))
       /\ AfterRow(Append(ui.json_files, filename))
  /\ UNCHANGED <<entry, arg, http, wi, conns>>

\* lines 258-299: the analysis loop goes to its next file, or on to the workbook
\* u holds the variables of the action as the loop body left them
AfterFile(u) ==
  /\ ui' = [u EXCEPT !.f = IF ui.f < Len(ui.json_files) THEN @ + 1 ELSE @]
  /\ pc' = IF ui.f < Len(ui.json_files) THEN "pc_load" ELSE "pc_excel"

\* lines 260-281: read the file back and build the table; an exception is reported at
\* lines 298-299 and no connection is opened for the file.  json_content (line 261) and
\* data (lines 275-278, the columns built before the exception) keep what was assigned.
PC_Load ==
  /\ pc = "pc_load"
  /\ LET fname == ui.json_files[ui.f]
         json_content == DictVal(files, fname)
         built == csv_table(json_content)
     IN IF json_content = <<>>
        THEN /\ log' = Append(log, Report("st.warning", 265, "No data"))
             /\ AfterFile([ui EXCEPT !.json_content = json_content])
        ELSE IF built.exc # ""
        THEN /\ log' = Append(log, Report("st.error", 299, built.exc))
             /\ AfterFile([ui EXCEPT !.json_content = json_content,
                                    !.data = built.table])
        ELSE /\ log' = log
             /\ ui' = [ui EXCEPT !.json_content = json_content, !.data = built.table]
             /\ pc' = "llm_connect"
  /\ UNCHANGED <<entry, arg, http, wi, fd, files, conns, ret>>

\* line 173
LLM_Connect ==
  /\ pc = "llm_connect"
  /\ \E connected \in BOOLEAN :
       IF connected
       THEN /\ conns' = Append(conns, NewConn("send_json_to_llm", ui.f))
            /\ pc' = "llm_initialize"
            /\ UNCHANGED <<ui, log>>
       ELSE /\ conns' = conns
            /\ log' = Append(log, Report("st.error", 299, "ConnectionError"))
            /\ AfterFile(ui)
  /\ UNCHANGED <<entry, arg, http, wi, fd, files, ret>>

\* lines 174-178
LLM_SendInitialize ==
  /\ pc = "llm_initialize"
  /\ conns' = Send(conns, InitializeMsg("streamlit-client"))
  /\ pc' = "llm_ready"
  /\ UNCHANGED <<entry, arg, http, wi, fd, ui, files, ret, log>>

\* lines 179-181: the exception the handshake reply raises ("" for none)
llm_ready_exc(ready) ==
  IF IsReady(ready).exc # "" THEN IsReady(ready).exc
  ELSE IF ~IsReady(ready).val THEN "RuntimeError"
  ELSE ""

\* a variant in which a handshake reply that is not "ready" ends the analysis loop
LLM_RecvReadyAbort ==
  /\ pc = "llm_ready"
  /\ \E h \in 1..Len(HandshakeReplies) :
       LET ready == HandshakeReplies[h]
           exc == llm_ready_exc(ready)
       IN
       IF exc = ""
       THEN /\ conns' = Recv(conns, ready)
            /\ pc' = "llm_request"
            /\ UNCHANGED <<ui, log>>
       ELSE /\ conns' = CloseWs(Recv(conns, ready),
                                Outcome("raised", exc,
                                        IF exc = "RuntimeError" THEN ready ELSE JNull))
            /\ log' = Append(log, Report("st.error", 299, exc))
            /\ ui' = ui
            /\ pc' = "pc_excel"
  /\ UNCHANGED <<entry, arg, http, wi, fd, files, ret>>

\* lines 179-181; the exception is reported at lines 298-299.  The RuntimeError of line
\* 181 carries the reply in its message; the AttributeError of line 180 does not.
LLM_RecvReady ==
  /\ pc = "llm_ready"
  /\ \E h \in 1..Len(HandshakeReplies) :
       LET ready == HandshakeReplies[h]
           exc == llm_ready_exc(ready)
       IN
       IF exc = ""
       THEN /\ conns' = Recv(conns, ready)
            /\ pc' = "llm_request"
            /\ UNCHANGED <<ui, log>>
       ELSE /\ conns' = CloseWs(Recv(conns, ready),
                                Outcome("raised", exc,
                                        IF exc = "RuntimeError" THEN ready ELSE JNull))
            /\ log' = Append(log, Report("st.error", 299, exc))
            /\ AfterFile(ui)
  /\ UNCHANGED <<entry, arg, http, wi, fd, files, ret>>

\* lines 184-211
LLM_SendRequest ==
  /\ pc = "llm_request"
  /\ conns' = Send(conns, RequestMsg(S_analyze \o ui.json_files[ui.f]))
  /\ pc' = "llm_response"
  /\ UNCHANGED <<entry, arg, http, wi, fd, ui, files, ret, log>>

\* lines 212-215: the exception the response raises ("" for none)
llm_response_exc(resp) ==
  IF IsResultOk(resp).exc # "" THEN IsResultOk(resp).exc
  ELSE IF ~IsResultOk(resp).val THEN "RuntimeError"
  ELSE GetKey(resp, "data").exc

\* a variant that sends the request again, on the same connection, after a reply
\* that is not a successful result
LLM_RecvResponseRetry ==
  /\ pc = "llm_response"
  /\ \E r \in 1..Len(RequestReplies) :
       LET resp == RequestReplies[r]
           exc == llm_response_exc(resp)
       IN
       IF exc = ""
       THEN /\ conns' = CloseWs(Recv(conns, resp),
                                Outcome("data", "", GetKey(resp, "data").val))
            /\ ui' = [ui EXCEPT !.llm_response = GetKey(resp, "data").val]
            /\ pc' = "pc_sheet"
       ELSE /\ conns' = Recv(conns, resp)
            /\ ui' = ui
            /\ pc' = "llm_request"
  /\ UNCHANGED <<entry, arg, http, wi, fd, files, ret, log>>

\* lines 212-215; an exception is reported at lines 298-299.  The RuntimeError of line
\* 215 carries the response in its message; the AttributeError of line 213 and the
\* KeyError of line 214 do not.
LLM_RecvResponse ==
  /\ pc = "llm_response"
  /\ \E r \in 1..Len(RequestReplies) :
       LET resp == RequestReplies[r]
           exc == llm_response_exc(resp)
       IN
       IF exc = ""
       THEN /\ conns' = CloseWs(Recv(conns, resp),
                                Outcome("data", "", GetKey(resp, "data").val))
            /\ ui' = [ui EXCEPT !.llm_response = GetKey(resp, "data").val]
            /\ pc' = "pc_sheet"
            /\ log' = log
       ELSE /\ conns' = CloseWs(Recv(conns, resp),
                                Outcome("raised", exc,
                                        IF exc = "RuntimeError" THEN resp ELSE JNull))
            /\ log' = Append(log, Report("st.error", 299, exc))
            /\ AfterFile(ui)
  /\ UNCHANGED <<entry, arg, http, wi, fd, files, ret>>

\* lines 283-299: the justification column, stored in data itself (line 292), and the
\* sheet of this file
PC_Sheet ==
  /\ pc = "pc_sheet"
  /\ \E justification_text \in {DotGet(ui.llm_response, "text", JStr(S_NoAnalysis))} :
     \E parsed \in {parse_llm_justifications(justification_text.val,
                                             all_params(ui.json_content))} :
     LET fname == ui.json_files[ui.f]
         exc == IF justification_text.exc # "" THEN justification_text.exc ELSE parsed.exc
         df == DictSet(ui.data, JStr(S_ReplacementJustification), parsed.justifications)
         sheet_name == SheetName(fname)
     IN IF exc # ""
        THEN /\ log' = Append(log, Report("st.error", 299, exc))
             /\ AfterFile(ui)
        ELSE /\ log' = log \o [i \in 1..Len(parsed.warnings) |->
                                  Report("st.warning", parsed.warnings[i], "")]
                         \o <<Report("st.success", 297, "")>>
             /\ AfterFile([ui EXCEPT !.data = df,
                                    !.excel_data = DictSet(@, sheet_name, df)])
  /\ UNCHANGED <<entry, arg, http, wi, fd, files, conns, ret>>

\* lines 319-327: st.download_button(key=f"json_{fname}") for every entry of json_files;
\* a file name that json_files holds twice repeats the key, and the second button raises
DuplicateKey(json_files) ==
  \E i \in 1..Len(json_files) : \E j \in 1..Len(json_files) :
    i < j /\ json_files[i] = json_files[j]

\* lines 301-327, outside every try block: write the workbook and report it (line 309),
\* then offer the downloads of the JSON files; a failed write and a repeated download
\* key leave the action as exceptions
PC_Excel ==
  /\ pc = "pc_excel"
  /\ \E written \in BOOLEAN :
       IF ui.excel_data # <<>> /\ ~written
       THEN /\ files' = files
            /\ log' = log
            /\ ret' = Uncaught("OSError")
       ELSE /\ files' = IF ui.excel_data # <<>>
                        THEN DictSet(files, S_xlsx, ui.excel_data) ELSE files
            /\ log' = IF ui.excel_data # <<>>
                      THEN Append(log, Report("st.success", 309, "")) ELSE log
            /\ ret' = IF DuplicateKey(ui.json_files)
                      THEN Uncaught("DuplicateWidgetID") ELSE Returned(<<>>)
  /\ pc' = "exit"
  /\ UNCHANGED <<entry, arg, http, wi, fd, ui, conns>>

Next ==
  \/ Main_Connect
  \/ Main_SendInitialize
  \/ Main_RecvReady
  \/ Main_SendRequest
  \/ Main_RecvResponse
  \/ WI_Token
  \/ WI_Search
  \/ WI_Table
  \/ PC_Parse
  \/ FD_Token
  \/ FD_Search
  \/ FD_Write
  \/ PC_Load
  \/ LLM_Connect
  \/ LLM_SendInitialize
  \/ LLM_RecvReady
  \/ LLM_SendRequest
  \/ LLM_RecvResponse
  \/ PC_Sheet
  \/ PC_Excel

Spec == Init /\ [][Next]_vars


(***************************************************************************)
(* Properties                                                              *)
(***************************************************************************)
Conns == 1..Len(conns)

\* the messages a connection sent (their types) and received, in order
RECURSIVE SentTypes(_)
SentTypes(events) ==
  IF events = <<>> THEN <<>>
  ELSE IF Head(events).dir = "send"
       THEN <<Head(events).msg.type>> \o SentTypes(Tail(events))
       ELSE SentTypes(Tail(events))

RECURSIVE Received(_)
Received(events) ==
  IF events = <<>> THEN <<>>
  ELSE IF Head(events).dir = "recv"
       THEN <<Head(events).msg>> \o Received(Tail(events))
       ELSE Received(Tail(events))

\* the received object has the field, with that value
HasField(msg, k, x) ==
  /\ msg.t = "obj"
  /\ \E i \in 1..Len(msg.v) : msg.v[i][1] = k /\ msg.v[i][2] = x

IsRequestEvent(e) == e.dir = "send" /\ e.msg.type = "request"
IsReadyEvent(e) == e.dir = "recv" /\ HasField(e.msg, "type", JStr(S_ready))

\* C1: on every connection of client.main and of send_json_to_llm, a `request` is sent
\* only after a handshake reply of type "ready" was received; a handshake reply of any
\* other type ends the session with an exception, the connection is closed and no
\* `request` is sent on it.
C1_RequestOnlyAfterReady ==
  \A c \in Conns :
    LET ev == conns[c].events
        rcv == Received(ev)
    IN /\ \A k \in 1..Len(ev) :
            IsRequestEvent(ev[k]) => \E j \in 1..(k - 1) : IsReadyEvent(ev[j])
       /\ (rcv # <<>> /\ ~HasField(rcv[1], "type", JStr(S_ready)))
            => /\ ~conns[c].open
               /\ conns[c].result.kind = "raised"
               /\ \A k \in 1..Len(ev) : ~IsRequestEvent(ev[k])

\* a batch with one connection ended by a handshake reply that is not "ready" and a
\* later connection on which the request was sent after "ready"
C1_Witness ==
  \E c, d \in Conns :
    /\ c < d
    /\ Received(conns[c].events) # <<>>
    /\ ~HasField(Received(conns[c].events)[1], "type", JStr(S_ready))
    /\ \E k \in 1..Len(conns[d].events) : IsRequestEvent(conns[d].events[k])

\* the directions and the types sent of a complete exchange
ExchangeDirs == <<"send", "recv", "send", "recv">>

\* C2: every connection sends at most one `initialize` and then at most one `request`
\* and reads at most two responses, each read following a send; a session that
\* completes normally (it returns, or client.main prints the response) has sent exactly
\* two messages and read exactly two responses.
C2_OneExchangePerConnection ==
  \A c \in Conns :
    LET ev == conns[c].events
        sent == SentTypes(ev)
    IN /\ Len(ev) <= Len(ExchangeDirs)
       /\ \A k \in 1..Len(ev) : ev[k].dir = ExchangeDirs[k]
       /\ sent \in {<<>>, <<"initialize">>, <<"initialize", "request">>}
       /\ Len(Received(ev)) <= 2
       /\ conns[c].result.kind \in {"data", "reported"}
            => Len(sent) = 2 /\ Len(Received(ev)) = 2

\* two connections of one batch, the first ended by an error reply to its request, the
\* second completed with a result
C2_Witness ==
  \E c, d \in Conns :
    /\ c < d
    /\ conns[c].result.kind = "raised"
    /\ Len(Received(conns[c].events)) = 2
    /\ conns[d].result.kind = "data"
    /\ SentTypes(conns[d].events) = <<"initialize", "request">>

\* the response to the request is a successful result
SuccessfulResult(resp) ==
  HasField(resp, "type", JStr(S_result)) /\ HasField(resp, "ok", JBool(TRUE))

\* the connections on which the response to the request was read
Answered == {c \in Conns : ~conns[c].open /\ Len(Received(conns[c].events)) = 2}

Response2(c) == Received(conns[c].events)[2]

\* C3 as claimed: the data payload is used only for a response with type "result" and
\* ok true, and for every other response every client raises an error to its caller
\* that carries the whole response object.
C3_EveryClientRaises ==
  \A c \in Answered :
    /\ conns[c].result.kind = "data"
         => /\ SuccessfulResult(Response2(c))
            /\ HasField(Response2(c), "data", conns[c].result.payload)
    /\ ~SuccessfulResult(Response2(c))
         => /\ conns[c].result.kind = "raised"
            /\ conns[c].result.payload = Response2(c)

\* C3 as amended: the data payload is used only for a response with type "result" and
\* ok true; for every other response object send_json_to_llm raises a RuntimeError that
\* carries the whole response object, and client.main does not raise: it prints the
\* whole response object after "Error:" and returns normally; a response that is not
\* an object makes either client raise an AttributeError that does not carry it.
C3_RaisesOrReports ==
  \A c \in Answered :
    /\ conns[c].result.kind = "data"
         => /\ SuccessfulResult(Response2(c))
            /\ HasField(Response2(c), "data", conns[c].result.payload)
    /\ Response2(c).t # "obj"
         => conns[c].result = Outcome("raised", "AttributeError", JNull)
    /\ (Response2(c).t = "obj" /\ ~SuccessfulResult(Response2(c)))
         => /\ conns[c].result.payload = Response2(c)
            /\ conns[c].client = "send_json_to_llm"
                 => conns[c].result = Outcome("raised", "RuntimeError", Response2(c))
            /\ conns[c].client = "main"
                 => /\ conns[c].result.kind = "reported"
                    /\ ret = Returned(<<>>)

\* a batch in which one exchange returned its data and a later one raised on a response
\* with ok false
C3_Witness ==
  \E c, d \in Answered :
    /\ c < d
    /\ conns[c].result.kind = "data"
    /\ conns[d].client = "send_json_to_llm"
    /\ HasField(Response2(d), "ok", JBool(FALSE))
    /\ conns[d].result.kind = "raised"


\* the statements inside the `async with` block of an exchange
InExchange ==
  pc \in {"main_initialize", "main_ready", "main_request", "main_response",
          "llm_initialize", "llm_ready", "llm_request", "llm_response"}

\* C10: connections are used strictly sequentially: at most one connection is open in
\* any state, only the newest connection can be open and only while its exchange runs,
\* so the connection of one file is closed before the connection of the next file is
\* opened, whether the exchange returned, the handshake reply was not "ready", or the
\* response was an error; and the files get their connections in batch order.
C10_ConnectionsSequential ==
  /\ Cardinality({c \in Conns : conns[c].open}) <= 1
  /\ \A c \in Conns : conns[c].open => (c = Len(conns) /\ InExchange)
  /\ \A c, d \in Conns : c < d => conns[c].f < conns[d].f \/ conns[d].client = "main"
  /\ \A c \in Conns : ~conns[c].open => conns[c].result.kind # "pending"

\* the second connection of a batch is open after the first was closed by a handshake
\* reply that is not "ready"
C10_Witness ==
  /\ Len(conns) = 2
  /\ conns[2].open
  /\ ~conns[1].open
  /\ conns[1].result.kind = "raised"
  /\ Len(Received(conns[1].events)) = 1


(***************************************************************************)
(* Catalog fetch and comparison tables                                     *)
(***************************************************************************)
\* the keyword searches sent so far, in order
RECURSIVE Searches(_)
Searches(reqs) ==
  IF reqs = <<>> THEN <<>>
  ELSE IF Head(reqs).url = "search"
       THEN <<Head(reqs)>> \o Searches(Tail(reqs))
       ELSE Searches(Tail(reqs))

Keywords(reqs) == [i \in 1..Len(reqs) |-> reqs[i].keywords]

\* the last n requests
LastN(reqs, n) == SubSeq(reqs, Len(reqs) - n + 1, Len(reqs))

\* a lookup failure: a non-success status, or an empty result set
IsLookupFailure(response) ==
  \/ response.status_code # HTTP_OK
  \/ HasField(response.json, "Products", JList(<<>>))

\* a lookup that found a product with the three sub-fields the routines read
IsFound(response) ==
  /\ response.status_code = HTTP_OK
  /\ \E p \in 1..Len(response.json.v) :
       /\ response.json.v[p][1] = "Products"
       /\ LET products == response.json.v[p][2] IN
            /\ products.t = "list"
            /\ Len(products.v) > 0
            /\ products.v[1].t = "obj"
            /\ \A k \in {"Manufacturer", "ProductStatus", "Parameters"} :
                 \E i \in 1..Len(products.v[1].v) : products.v[1].v[i][1] = k

\* the records hold one entry per part number, in input order
OneEntryPerPart(records, part_numbers) ==
  /\ Len(records) = Len(part_numbers)
  /\ \A i \in 1..Len(part_numbers) :
       /\ i <= Len(records)
       /\ \E k \in 1..Len(records[i]) :
            records[i][k] = <<JStr(S_PartNumber), JStr(upper(part_numbers[i]))>>

WiFinished == entry = "Web_inteface" /\ pc = "exit" /\ Truthy(wi.access_token)

\* the searches of the call of fetch_digikey_data that has finished its loop
FdSearches == LastN(Searches(http), Len(fd.part_numbers))

\* C4 as claimed: in both catalog-fetch routines a lookup failure (non-success status
\* or empty result set) is recorded inline and does not abort the batch: when every
\* lookup of a batch found its product or failed in one of these two ways, every input
\* part number was looked up and has exactly one entry in the output, in input order.
C4_LookupFailuresRecorded ==
  /\ ( /\ WiFinished
       /\ \A i \in 1..Len(Searches(http)) :
            IsFound(Searches(http)[i].response) \/ IsLookupFailure(Searches(http)[i].response) )
       => /\ ret.kind = "returned"
          /\ Keywords(Searches(http)) = wi.Li
          /\ OneEntryPerPart(wi.fin_11, wi.Li)
  /\ ( /\ entry = "ProcessCSV" /\ pc = "fd_write"
       /\ \A i \in 1..Len(FdSearches) :
            IsFound(FdSearches[i].response) \/ IsLookupFailure(FdSearches[i].response) )
       => /\ Keywords(FdSearches) = fd.part_numbers
          /\ OneEntryPerPart(fd.all_specs, fd.part_numbers)

\* the exceptions that reading a malformed response raises
CrashExc == {"AttributeError", "KeyError", "TypeError", "IndexError"}

\* C5 as claimed: a search response with HTTP 200 whose Products field is missing or
\* malformed does not crash the batch: the part number degrades to a placeholder record
\* and the remaining part numbers are still processed and returned.
C5_MalformedProductsDegrade ==
  /\ ( /\ WiFinished
       /\ \A i \in 1..Len(Searches(http)) :
            Searches(http)[i].response.status_code = HTTP_OK )
       => /\ ret.kind = "returned"
          /\ Keywords(Searches(http)) = wi.Li
          /\ OneEntryPerPart(wi.fin_11, wi.Li)
  /\ entry = "ProcessCSV"
       => \A i \in 1..Len(log) : ~(log[i].line = 253 /\ log[i].exc \in CrashExc)

\* the value columns of a table: every column but the first
ValueColumns(table) == IF table = <<>> THEN <<>> ELSE Tail(table)

\* the cell of a column in the row of an attribute
Cell(table, column, attr) ==
  column[2][CHOOSE r \in 1..Len(table[1][2]) : table[1][2][r] = attr]

\* column i of the table holds the values of record i
ColumnsHoldRecords(table, records) ==
  /\ Len(ValueColumns(table)) = Len(records)
  /\ \A i \in 1..Len(records) :
       /\ i <= Len(ValueColumns(table))
       /\ \A k \in 1..Len(records[i]) :
            Cell(table, ValueColumns(table)[i], records[i][k][1]) = records[i][k][2]

\* C6 as claimed: both table builders produce exactly one value column per component
\* identifier of the batch, repeated identifiers and identifiers whose lookup found
\* nothing included, and column i holds the values of identifier i.
C6_OneColumnPerIdentifier ==
  /\ (WiFinished /\ ret.kind = "returned")
       => /\ Len(ValueColumns(ret.value)) = Len(wi.Li)
          /\ ColumnsHoldRecords(ret.value, wi.fin_11)
  /\ (entry = "ProcessCSV" /\ pc = "llm_connect")
       => ColumnsHoldRecords(ui.data, ui.json_content)

\* the position of the first occurrence of x in l
FirstPos(l, x) == CHOOSE i \in 1..Len(l) : l[i] = x /\ \A j \in 1..(i - 1) : l[j] # x

\* rows are the distinct attribute names of the records, in first-seen order
FirstSeenRows(rows, records) ==
  LET keys == AllKeys(records) IN
  /\ \A i, j \in 1..Len(rows) : i # j => rows[i] # rows[j]
  /\ {rows[i] : i \in 1..Len(rows)} = {keys[i] : i \in 1..Len(keys)}
  /\ \A i, j \in 1..Len(rows) : i < j => FirstPos(keys, rows[i]) < FirstPos(keys, rows[j])

\* every cell is the record's value for the attribute, or "-"
CellsFilled(table, records) ==
  \A i \in 1..Len(records) :
    i <= Len(ValueColumns(table)) =>
      \A r \in 1..Len(table[1][2]) :
        ValueColumns(table)[i][2][r] =
          IF \E k \in 1..Len(records[i]) : records[i][k][1] = table[1][2][r]
          THEN records[i][CHOOSE k \in 1..Len(records[i]) :
                            records[i][k][1] = table[1][2][r]][2]
          ELSE JStr(S_Dash)

\* C7 as claimed: both table builders produce one row per distinct attribute name, in
\* first-seen order, and every cell is the component's value or "-".
C7_RowsFirstSeen ==
  /\ (WiFinished /\ ret.kind = "returned" /\ ret.value # <<>>)
       => /\ FirstSeenRows(ret.value[1][2], wi.fin_11)
          /\ CellsFilled(ret.value, wi.fin_11)
  /\ (entry = "ProcessCSV" /\ pc = "llm_connect")
       => /\ FirstSeenRows(ui.data[1][2], ui.json_content)
          /\ CellsFilled(ui.data, ui.json_content)

\* C8 as claimed: no failure ends the process: a handshake reply that is not "ready"
\* and a failed write of the spreadsheet are caught by the entry point's own handler.
C8_NoFailureEscapes ==
  ~(ret.kind = "uncaught" /\ ret.exc \in {"AssertionError", "OSError"})

\* every fetch and every exchange of the batch succeeded and the workbook was written
AllSucceeded ==
  /\ entry = "ProcessCSV" /\ pc = "exit" /\ ret.kind = "returned"
  /\ ui.rows_data # <<>>
  /\ Len(ui.json_files) = Len(ui.rows_data)
  /\ Len(conns) = Len(ui.json_files)
  /\ \A c \in Conns : conns[c].result.kind = "data"
  /\ \A i \in 1..Len(log) : log[i].kind # "st.error"

\* C9 as claimed: when every fetch and every exchange succeeds, the workbook has one
\* sheet per CSV row that held a part number, and two rows never share a sheet.
C9_OneSheetPerRow ==
  AllSucceeded =>
    /\ DictHas(files, S_xlsx)
    /\ Len(DictVal(files, S_xlsx)) = Len(ui.rows_data)


(***************************************************************************)
(* Retries and the confinement of errors in the Process CSV action         *)
(***************************************************************************)
\* the requests to the catalog API, one group per call of fetch_digikey_data: a call
\* starts with its token exchange
RECURSIVE Batches(_)
Batches(reqs) ==
  IF reqs = <<>> THEN <<>>
  ELSE LET init == Batches(SubSeq(reqs, 1, Len(reqs) - 1))
           x == reqs[Len(reqs)]
       IN IF x.url = "token" \/ init = <<>>
          THEN Append(init, <<x>>)
          ELSE [init EXCEPT ![Len(init)] = Append(@, x)]

\* a is an initial part of b
IsPrefix(a, b) == Len(a) <= Len(b) /\ SubSeq(b, 1, Len(a)) = a

\* the call of fetch_digikey_data for row k has ended (returned or raised)
FetchEnded(k) == k < Len(Batches(http)) \/ pc # "fd_search"

\* no request is repeated: row k has one token exchange, followed by searches for an
\* initial part of its part numbers, one each and in order, and none after a failed
\* token exchange; no two connections serve the same file
NothingRepeated ==
  LET b == Batches(http) IN
  /\ Len(b) <= Len(ui.rows_data)
  /\ \A k \in 1..Len(b) :
       /\ k <= Len(ui.rows_data)
       /\ b[k][1].url = "token"
       /\ \A i \in 2..Len(b[k]) : b[k][i].url = "search"
       /\ IsPrefix(Keywords(Tail(b[k])), ui.rows_data[k].part_numbers)
       /\ b[k][1].response.status_code # HTTP_OK => Len(b[k]) = 1
  /\ Len(conns) <= Len(ui.json_files)
  /\ \A c \in Conns : conns[c].f \in 1..Len(ui.json_files)
  /\ \A c, d \in Conns : c # d => conns[c].f # conns[d].f

\* C11 as claimed: nothing is retried: within one batch the token exchange is attempted
\* at most once, each part number gets at most one keyword search whatever its outcome,
\* exactly one when the token exchange succeeded and none when it failed, and each batch
\* row gets at most one generation-service connection.
C11_NothingRetried ==
  entry = "ProcessCSV" =>
    /\ NothingRepeated
    /\ \A k \in 1..Len(Batches(http)) :
         (FetchEnded(k) /\ Batches(http)[k][1].response.status_code = HTTP_OK)
           => Keywords(Tail(Batches(http)[k])) = ui.rows_data[k].part_numbers

\* what the analysis loop told the user, one entry per file it went through, in order:
\* st.warning (line 265), st.success (line 297) or st.error (line 299)
RECURSIVE AnalysisLog(_)
AnalysisLog(l) ==
  IF l = <<>> THEN <<>>
  ELSE IF Head(l).line \in {265, 297, 299}
       THEN <<Head(l)>> \o AnalysisLog(Tail(l))
       ELSE AnalysisLog(Tail(l))

\* the files whose table was put into the workbook
SheetFiles == {k \in 1..Len(AnalysisLog(log)) : AnalysisLog(log)[k].line = 297}

\* the analysis loop is past file k
PastFile(k) == k < ui.f \/ pc \in {"pc_excel", "exit"}

\* the table of file k cannot be built (line 278 raises), so the loop body ends before
\* the exchange
TableFails(k) == csv_table(DictVal(files, ui.json_files[k])).exc # ""

\* C12: in the Process CSV action a generation-service error for one row (a handshake
\* reply that is not "ready", or a response that is not a successful result) is
\* confined to that row: the failed row is reported and contributes no sheet, a row has
\* a sheet only if its exchange returned a successful result, the sheets of the
\* workbook are those of the rows that succeeded, and every row the loop is past,
\* rows after a failed one included, opened its own connection (unless its table could
\* not be built or the connection could not be established) and ran its own exchange.
C12_ErrorsConfined ==
  entry = "ProcessCSV" =>
    LET a == AnalysisLog(log) IN
    /\ \A c \in Conns :
         conns[c].result.kind = "raised"
           => /\ conns[c].f <= Len(a)
              /\ a[conns[c].f].kind = "st.error"
              /\ conns[c].f \notin SheetFiles
    /\ \A k \in SheetFiles :
         \E c \in Conns :
           /\ conns[c].f = k
           /\ conns[c].result.kind = "data"
           /\ c \in Answered
           /\ SuccessfulResult(Response2(c))
    /\ {ui.excel_data[i][1] : i \in 1..Len(ui.excel_data)}
         = {SheetName(ui.json_files[k]) : k \in SheetFiles}
    /\ \A k \in 1..Len(ui.json_files) :
         PastFile(k)
           => /\ k <= Len(a)
              /\ \/ \E c \in Conns :
                      /\ conns[c].f = k
                      /\ ~conns[c].open
                      /\ SentTypes(conns[c].events)[1] = "initialize"
                      /\ Len(Received(conns[c].events)) >= 1
                 \/ a[k].exc = "ConnectionError"
                 \/ a[k].kind = "st.error" /\ TableFails(k)

\* the loop is past two files with different names: the exchange of the first was ended
\* by a handshake reply that is not "ready", the second ran its own exchange and
\* returned a result, and the workbook holds the sheet of the second file only
C12_Witness ==
  /\ entry = "ProcessCSV"
  /\ pc = "pc_excel"
  /\ Len(ui.json_files) = 2
  /\ ui.json_files[1] # ui.json_files[2]
  /\ Len(conns) = 2
  /\ conns[1].f = 1
  /\ conns[1].result.kind = "raised"
  /\ Len(Received(conns[1].events)) = 1
  /\ conns[2].f = 2
  /\ conns[2].result.kind = "data"
  /\ DictKeys(ui.excel_data) = <<SheetName(ui.json_files[2])>>

==========================================================================
